---------------------------- MODULE Spec2Model ----------------------------
(***************************************************************************)
(* Model of the attendance-sheet extractor (backend/extractor.py) and of   *)
(* the ways a configuration reaches it (backend/main.py, server.py).       *)
(*                                                                         *)
(* Text is a sequence of characters; a character is a one-element string,  *)
(* except the non-ASCII ones, which are named by their code point:         *)
(*   "U5C71" 山  "U7530" 田  "U592A" 太  "U90CE" 郎                        *)
(*   "U3000" the full-width (ideographic) space, "U00A0" the no-break space*)
(* Confidence scores are counted in tenths (0.5 is 5).  Coordinates are    *)
(* integers.                                                               *)
(***************************************************************************)
EXTENDS Integers, Sequences, FiniteSets, TLC

VARIABLES
    config,      \* the AttendCheckConfig built by the caller, or NoConfig
    extractor,   \* the Extractor object (its attributes), or NoExtractor
    pc,          \* where the program is: start, configured, failed, idle, scan, build, done
    words,       \* extract: result.words
    snapshot,    \* the token list as the caller passed it (history)
    pos,         \* extract: index of the loop in progress
    candidates,  \* extract: the (word, match) pairs
    seen_ids,    \* extract: the set bound to seen_ids
    students,    \* extract: the records appended so far
    log,         \* per record: the locals of the iteration that built it (history)
    pn_raw,      \* _parse_name on its own: the argument
    pn_out,      \* _parse_name on its own: the value returned, or NotParsed
    requests,    \* server: per export request its kind, students, position, response
    path,        \* server: the file temp_export.csv names (0: no such file)
    disk,        \* server: the bytes of each file ever created
    loop         \* server: the request whose handler runs on the event loop (0: none)

vars == <<config, extractor, pc, words, snapshot, pos, candidates, seen_ids,
          students, log, pn_raw, pn_out, requests, path, disk, loop>>

extractVars == <<config, extractor, pc, words, snapshot, pos, candidates,
                 seen_ids, students, log>>

exportVars == <<requests, path, disk, loop>>

\* pn_out before the call
NotParsed == <<>>

\* the export requests the server gets
MaxRequests == 2

Requests == 1..MaxRequests

\* a file: the byte order mark utf-8-sig writes, and the lines after it
NoBytes == [bom |-> FALSE, lines |-> <<>>]

\* a request that has not arrived
NewRequest ==
    [kind |-> "none", students |-> <<>>, pc |-> "new", handle |-> 0,
     content |-> NoBytes, body |-> NoBytes]

\* the server before any export request: no temp_export.csv
NoExport ==
    /\ requests = [r \in Requests |-> NewRequest]
    /\ path = 0
    /\ disk = [r \in Requests |-> NoBytes]
    /\ loop = 0

NoConfig == "NoConfig"

NoExtractor == "NoExtractor"

(***************************************************************************)
(* Characters                                                              *)
(***************************************************************************)
\* the characters c of the model with c.isalpha() and c.isascii()
AsciiLetters == {"a", "d", "m", "o", "p", "r", "x", "T", "Y"}

\* the characters the regex class \d matches
Digits == {"0", "1", "2", "7"}

\* the characters str.strip() removes and the regex class \s matches
\* (Unicode whitespace: both include U+3000 and U+00A0)
Whitespace == {" ", "U3000", "U00A0"}

Parens == {"(", ")"}

IsSpace(c) == c \in Whitespace

IsDigit(c) == c \in Digits

(***************************************************************************)
(* String helpers                                                          *)
(***************************************************************************)
RECURSIVE LStrip(_)
LStrip(s) ==
    IF s # <<>> /\ IsSpace(Head(s)) THEN LStrip(Tail(s)) ELSE s

RECURSIVE RStrip(_)
RStrip(s) ==
    IF s # <<>> /\ IsSpace(s[Len(s)]) THEN RStrip(SubSeq(s, 1, Len(s) - 1)) ELSE s

\* str.strip()
Strip(s) == RStrip(LStrip(s))

\* re.sub(r"[()]", "", s)
RemoveParens(s) == SelectSeq(s, LAMBDA c : c \notin Parens)

\* "".join(parts)
RECURSIVE JoinWith(_, _)
JoinWith(parts, sep) ==
    IF parts = <<>> THEN <<>>
    ELSE IF Len(parts) = 1 THEN parts[1]
    ELSE parts[1] \o sep \o JoinWith(Tail(parts), sep)

\* re.split(r"\s+|U+3000", s): one cut per maximal run of whitespace; the
\* pieces before the first and after the last cut may be empty
RECURSIVE SplitAcc(_, _, _, _)
SplitAcc(s, i, cur, out) ==
    IF i > Len(s) THEN Append(out, cur)
    ELSE IF IsSpace(s[i])
         THEN IF i > 1 /\ IsSpace(s[i - 1])
              THEN SplitAcc(s, i + 1, cur, out)
              ELSE SplitAcc(s, i + 1, <<>>, Append(out, cur))
         ELSE SplitAcc(s, i + 1, Append(cur, s[i]), out)

ReSplit(s) == SplitAcc(s, 1, <<>>, <<>>)

(***************************************************************************)
(* Extractor._parse_name                                                   *)
(***************************************************************************)
AlphaCount(clean) == Len(SelectSeq(clean, LAMBDA c : c \in AsciiLetters))

\* a slip: >= 0.5
IsAlphaAtHalf(clean) == 2 * AlphaCount(clean) >= Len(clean)

\* is_alpha = (alpha_count / total_len) > 0.5
IsAlpha(clean) == 2 * AlphaCount(clean) > Len(clean)

\* clean = raw_name.strip(); clean = re.sub(r"[()]", "", clean)
CleanName(raw) == RemoveParens(Strip(raw))

\* the value returned: <<surname, first_name, full_name>>
ParseName(raw) ==
    LET clean == CleanName(raw)
        parts == SelectSeq(ReSplit(clean), LAMBDA p : p # <<>>)
    IN  IF clean = <<>> THEN << <<>>, <<>>, <<>> >>
        ELSE IF IsAlpha(clean) THEN << <<>>, <<>>, clean >>
        ELSE IF Len(parts) >= 2
             THEN LET surname == parts[1]
                      first_name == JoinWith(Tail(parts), <<>>)
                  IN  <<surname, first_name, surname \o <<" ">> \o first_name>>
             ELSE << <<>>, <<>>, clean >>

(***************************************************************************)
(* AttendCheckConfig and the ways it is built                              *)
(***************************************************************************)
\* name_exclusion_pattern's default [!@#$%^&*(),.?":{}|<>]: the characters
\* of the model the class holds
DefaultExclusion == [given |-> TRUE, class |-> {"(", ")"}]

\* name_exclusion_pattern: None
NoPattern == [given |-> FALSE, class |-> {}]

px == <<"p", "x", "-">>

\* AttendCheckConfig(): every field at its default
DefaultConfig ==
    [student_id_pattern |-> "", student_id_prefix |-> <<>>,
     name_exclusion_pattern |-> DefaultExclusion, confidence_threshold |-> 5]

\* configurations a caller or a config file can give (absent keys take the
\* defaults); "(" is a pattern re.compile rejects
GivenConfigs ==
    { DefaultConfig,
      [student_id_pattern |-> "^px-\\d+$", student_id_prefix |-> px,
       name_exclusion_pattern |-> DefaultExclusion, confidence_threshold |-> 5],
      [student_id_pattern |-> "^px-\\d+$", student_id_prefix |-> px,
       name_exclusion_pattern |-> NoPattern, confidence_threshold |-> 9],
      [student_id_pattern |-> "", student_id_prefix |-> px,
       name_exclusion_pattern |-> DefaultExclusion, confidence_threshold |-> 5],
      [student_id_pattern |-> "^px-\\d+$", student_id_prefix |-> <<>>,
       name_exclusion_pattern |-> NoPattern, confidence_threshold |-> 5],
      [student_id_pattern |-> "(", student_id_prefix |-> px,
       name_exclusion_pattern |-> DefaultExclusion, confidence_threshold |-> 5] }

\* re.compile(pattern) succeeds
Compiles(pattern) == pattern # "("

(***************************************************************************)
(* Tokens (WordPrediction): content, rec_score, points                     *)
(***************************************************************************)
Box(x0, x1, y0, y1) == << <<x0, y0>>, <<x1, y0>>, <<x1, y1>>, <<x0, y1>> >>

Word(c, s, b) == [content |-> c, rec_score |-> s, points |-> b]

Abs(n) == IF n < 0 THEN -n ELSE n

SetMin(S) == CHOOSE m \in S : \A n \in S : m <= n

SetMax(S) == CHOOSE m \in S : \A n \in S : m >= n

\* min(p[0] for p in box)
MinX(box) == SetMin({box[k][1] : k \in 1..Len(box)})

\* max(p[0] for p in box)
MaxX(box) == SetMax({box[k][1] : k \in 1..Len(box)})

(***************************************************************************)
(* id_search_pattern.search(word.content)                                  *)
(***************************************************************************)
NoMatch == [found |-> FALSE]

\* the pattern (prefix\d+) matches at index i (1-based) of s
MatchesAt(prefix, s, i) ==
    /\ i + Len(prefix) <= Len(s)
    /\ SubSeq(s, i, i + Len(prefix) - 1) = prefix
    /\ IsDigit(s[i + Len(prefix)])

\* the end of the greedy run of digits that starts at index i
RECURSIVE DigitsEnd(_, _)
DigitsEnd(s, i) ==
    IF i < Len(s) /\ IsDigit(s[i + 1]) THEN DigitsEnd(s, i + 1) ELSE i

\* the leftmost match: start is match.start() (0-based), group is match.group(1)
IdSearch(prefix, s) ==
    LET starts == {i \in 1..Len(s) : MatchesAt(prefix, s, i)}
    IN  IF starts = {} THEN NoMatch
        ELSE LET i == SetMin(starts)
             IN  [found |-> TRUE, start |-> i - 1,
                  group |-> SubSeq(s, i, DigitsEnd(s, i + Len(prefix)))]

\* prefix in content
Contains(s, sub) ==
    \E i \in 1..(Len(s) + 1) :
        i + Len(sub) - 1 <= Len(s) /\ SubSeq(s, i, i + Len(sub) - 1) = sub

\* pattern.search(content) for a character class
ClassSearch(class, s) == \E i \in 1..Len(s) : s[i] \in class

(***************************************************************************)
(* Extractor._find_name_at_left                                            *)
(***************************************************************************)
\* the horizontal gap, in id heights, beyond which the scan stops
DistFactor == 5

\* the vertical tolerance 0.8, in tenths of the id height
VTolTenths == 8

\* the number of words a name is made of at most
NamePartLimit == 2

\* id_height = abs(id_box[2][1] - id_box[0][1])
Height(box) == Abs(box[3][2] - box[1][2])

\* twice the vertical centre (box[0][1] + box[2][1]) / 2
CY2(box) == box[1][2] + box[3][2]

\* abs(w_cy - id_cy) < id_height * 0.8
SameLine(wb, id_box) ==
    10 * Abs(CY2(wb) - CY2(id_box)) < 2 * VTolTenths * Height(id_box)

\* w_right_x < id_left_x
LeftOf(wb, id_box) == MaxX(wb) < MinX(id_box)

\* the exclusion check of lines 115-116
Excluded(ex, word) ==
    ex.name_exclusion_pattern.given
        /\ ClassSearch(ex.name_exclusion_pattern.class, word.content)

\* the "looks like an ID" check of lines 119-120
LooksLikeId(ex, word) ==
    ex.config.student_id_prefix # <<>>
        /\ Contains(word.content, ex.config.student_id_prefix)

\* the loop of lines 111-130: the candidates, in the order of all_words
Qualifies(ex, id_word, word) ==
    /\ word # id_word
    /\ ~Excluded(ex, word)
    /\ ~LooksLikeId(ex, word)
    /\ SameLine(word.points, id_word.points)
    /\ LeftOf(word.points, id_word.points)

LeftCandidates(ex, id_word, all_words) ==
    SelectSeq(all_words, LAMBDA w : Qualifies(ex, id_word, w))

\* candidates.sort(key = rightmost x, reverse=True): stable, so words of
\* equal key keep their order
RECURSIVE InsertDesc(_, _)
InsertDesc(sorted, w) ==
    IF sorted = <<>> THEN <<w>>
    ELSE IF MaxX(Head(sorted).points) >= MaxX(w.points)
         THEN <<Head(sorted)>> \o InsertDesc(Tail(sorted), w)
         ELSE <<w>> \o sorted

RECURSIVE SortDesc(_)
SortDesc(ws) ==
    IF ws = <<>> THEN <<>>
    ELSE InsertDesc(SortDesc(SubSeq(ws, 1, Len(ws) - 1)), ws[Len(ws)])

\* a slip: the distance is not checked
TooFarNever(last_x, x, id_height) == FALSE

\* dist > id_height * 5
TooFar(last_x, x, id_height) == last_x - x > id_height * DistFactor

\* last_x after a word was taken: min(p[0] for p in word.points)
NextBoundary(word, last_x) == MinX(word.points)

\* the loop of lines 140-151: the words whose content makes the name, in
\* the order of name_parts
RECURSIVE Accumulate(_, _, _, _, _)
Accumulate(cands, k, last_x, id_height, parts) ==
    IF k > Len(cands) THEN parts
    ELSE IF TooFar(last_x, MaxX(cands[k].points), id_height) THEN parts
    ELSE LET taken == <<cands[k]>> \o parts
         IN  IF Len(taken) >= NamePartLimit THEN taken
             ELSE Accumulate(cands, k + 1, NextBoundary(cands[k], last_x),
                             id_height, taken)

\* the words _find_name_at_left joins
NameParts(ex, id_word, all_words) ==
    Accumulate(SortDesc(LeftCandidates(ex, id_word, all_words)), 1,
               MinX(id_word.points), Height(id_word.points), <<>>)

\* " ".join(name_parts)
FindNameAtLeft(ex, id_word, all_words) ==
    LET parts == NameParts(ex, id_word, all_words)
    IN  JoinWith([k \in 1..Len(parts) |-> parts[k].content], <<" ">>)

(***************************************************************************)
(* Building the configuration: a caller's own, main.load_config, or the    *)
(* server's lifespan                                                       *)
(***************************************************************************)
\* the config file as load_config finds it
ConfigFiles ==
    [exists : BOOLEAN, loads : BOOLEAN, data : GivenConfigs]

\* main.load_config
LoadConfigResult(file) ==
    IF file.exists
    THEN IF file.loads THEN file.data ELSE DefaultConfig
    ELSE DefaultConfig

\* a caller builds the configuration and hands it to Extractor
DirectConfig ==
    /\ pc = "start"
    /\ \E c \in GivenConfigs : config' = c
    /\ pc' = "configured"
    /\ UNCHANGED <<extractor, words, snapshot, pos, candidates, seen_ids,
                   students, log, pn_raw, pn_out>>
    /\ UNCHANGED exportVars

\* main: config = load_config()
LoadConfig ==
    /\ pc = "start"
    /\ \E file \in ConfigFiles : config' = LoadConfigResult(file)
    /\ pc' = "configured"
    /\ UNCHANGED <<extractor, words, snapshot, pos, candidates, seen_ids,
                   students, log, pn_raw, pn_out>>
    /\ UNCHANGED exportVars

\* server lifespan: config = AttendCheckConfig()
Lifespan ==
    /\ pc = "start"
    /\ config' = DefaultConfig
    /\ pc' = "configured"
    /\ UNCHANGED <<extractor, words, snapshot, pos, candidates, seen_ids,
                   students, log, pn_raw, pn_out>>
    /\ UNCHANGED exportVars

\* Extractor.__init__: the attributes of the new object
NewExtractor(c) ==
    [config |-> c,
     id_pattern |-> c.student_id_pattern,
     name_exclusion_pattern |->
         IF c.name_exclusion_pattern.given THEN c.name_exclusion_pattern
         ELSE NoPattern]

\* Extractor(config); re.compile raises on a pattern that does not compile
Construct ==
    /\ pc = "configured"
    /\ IF Compiles(config.student_id_pattern)
       THEN extractor' = NewExtractor(config) /\ pc' = "idle"
       ELSE extractor' = extractor /\ pc' = "failed"
    /\ UNCHANGED <<config, words, snapshot, pos, candidates, seen_ids,
                   students, log, pn_raw, pn_out>>
    /\ UNCHANGED exportVars

(***************************************************************************)
(* Extractor.extract                                                       *)
(***************************************************************************)
\* a slip: the score is not compared
MeetsThresholdAlways(ex, word) == TRUE

\* word.rec_score >= self.config.confidence_threshold
MeetsThreshold(ex, word) == word.rec_score >= ex.config.confidence_threshold

\* a slip: candidates.insert(0, (word, match))
AddCandidateFirst(cands, word, match) ==
    <<[word |-> word, match |-> match]>> \o cands

\* candidates.append((word, match))
AddCandidate(cands, word, match) ==
    Append(cands, [word |-> word, match |-> match])

\* a slip: duplicates are not recognised
AlreadySeenNever(full_id, seen) == FALSE

\* full_id in seen_ids
AlreadySeen(full_id, seen) == full_id \in seen

\* a slip: the set of an earlier call is kept
StaleSeenIds == seen_ids

\* seen_ids = set()
NewSeenIds == {}

\* id_num = re.sub(r"\D", "", full_id)
IdNum(full_id) == SelectSeq(full_id, IsDigit)

\* pre_id_content = word.content[:match.start()]
PreIdContent(word, match) == SubSeq(word.content, 1, match.start)

\* a slip: no second strip after the "(" is dropped
CleanPreNoRestrip(pre) ==
    LET stripped == Strip(pre)
    IN  IF stripped # <<>> /\ stripped[Len(stripped)] = "("
        THEN SubSeq(stripped, 1, Len(stripped) - 1)
        ELSE stripped

\* clean_pre: strip, drop one trailing "(", strip again
CleanPre(pre) ==
    LET stripped == Strip(pre)
    IN  IF stripped # <<>> /\ stripped[Len(stripped)] = "("
        THEN Strip(SubSeq(stripped, 1, Len(stripped) - 1))
        ELSE stripped

\* the name is looked for to the left only when clean_pre is empty
NeedsSearch(clean_pre) == clean_pre = <<>>

\* a slip: a record without a name shows its identifier as the name
StudentInfoIdAsName(full_id, parsed, word) ==
    [student_id_full |-> full_id,
     student_id_num |-> IdNum(full_id),
     surname |-> parsed[1],
     name |-> parsed[2],
     full_name |-> IF parsed[3] = <<>> THEN full_id ELSE parsed[3],
     confidence |-> word.rec_score]

\* the StudentInfo of lines 89-97
StudentInfo(full_id, parsed, word) ==
    [student_id_full |-> full_id,
     student_id_num |-> IdNum(full_id),
     surname |-> parsed[1],
     name |-> parsed[2],
     full_name |-> parsed[3],
     confidence |-> word.rec_score]

\* lines 26-43: the call, up to the first loop
CallExtract(pages) ==
    /\ pc = "idle"
    /\ \E page \in pages : words' = page /\ snapshot' = page
    /\ students' = <<>>
    /\ candidates' = <<>>
    /\ log' = <<>>
    /\ pos' = 1
    /\ pc' = "scan"
    /\ UNCHANGED <<config, extractor, seen_ids, pn_raw, pn_out>>
    /\ UNCHANGED exportVars

\* lines 45-50: one iteration over words
ScanWord ==
    /\ pc = "scan"
    /\ pos <= Len(words)
    /\ LET word == words[pos]
           match == IdSearch(extractor.config.student_id_prefix, word.content)
       IN  candidates' =
               IF match.found /\ MeetsThreshold(extractor, word)
               THEN AddCandidate(candidates, word, match)
               ELSE candidates
    /\ pos' = pos + 1
    /\ UNCHANGED <<config, extractor, pc, words, snapshot, seen_ids, students,
                   log, pn_raw, pn_out>>
    /\ UNCHANGED exportVars

\* line 52, after the last word
ScanDone ==
    /\ pc = "scan"
    /\ pos > Len(words)
    /\ seen_ids' = NewSeenIds
    /\ pos' = 1
    /\ pc' = "build"
    /\ UNCHANGED <<config, extractor, words, snapshot, candidates, students,
                   log, pn_raw, pn_out>>
    /\ UNCHANGED exportVars

\* lines 54-97: one iteration over candidates
BuildRecord ==
    /\ pc = "build"
    /\ pos <= Len(candidates)
    /\ LET word == candidates[pos].word
           match == candidates[pos].match
           full_id == match.group
           pre_id_content == PreIdContent(word, match)
           clean_pre == CleanPre(pre_id_content)
           searched == NeedsSearch(clean_pre)
           raw_name == IF searched
                       THEN FindNameAtLeft(extractor, word, words)
                       ELSE clean_pre
       IN  IF AlreadySeen(full_id, seen_ids)
           THEN UNCHANGED <<seen_ids, students, log>>
           ELSE /\ seen_ids' = seen_ids \cup {full_id}
                /\ students' =
                       Append(students,
                              StudentInfo(full_id, ParseName(raw_name), word))
                /\ log' =
                       Append(log,
                              [word |-> word,
                               pre_id_content |-> pre_id_content,
                               searched |-> searched,
                               parts |-> IF searched
                                         THEN NameParts(extractor, word, words)
                                         ELSE <<>>,
                               raw_name |-> raw_name])
    /\ pos' = pos + 1
    /\ UNCHANGED <<config, extractor, pc, words, snapshot, candidates, pn_raw,
                   pn_out>>
    /\ UNCHANGED exportVars

\* line 99: return students
BuildDone ==
    /\ pc = "build"
    /\ pos > Len(candidates)
    /\ pc' = "done"
    /\ UNCHANGED <<config, extractor, words, snapshot, pos, candidates,
                   seen_ids, students, log, pn_raw, pn_out>>
    /\ UNCHANGED exportVars

\* the caller has taken the list; the call's frame is gone
Return ==
    /\ pc = "done"
    /\ pc' = "idle"
    /\ words' = <<>>
    /\ snapshot' = <<>>
    /\ candidates' = <<>>
    /\ students' = <<>>
    /\ log' = <<>>
    /\ pos' = 0
    /\ UNCHANGED <<config, extractor, seen_ids, pn_raw, pn_out>>
    /\ UNCHANGED exportVars

(***************************************************************************)
(* The documents                                                           *)
(***************************************************************************)
MaxWords == 3

yamada == <<"U5C71", "U7530">>

IdBox == Box(60, 80, 10, 15)

\* tokens that carry identifiers, with the name embedded or to the left
IdTokens ==
    { Word(px \o <<"1">>, 9, IdBox),
      Word(px \o <<"1">>, 4, Box(60, 80, 30, 35)),
      Word(yamada \o <<" ", "(">> \o px \o <<"1", ")">>, 5, Box(0, 80, 50, 55)),
      Word(px \o <<"2">>, 9, Box(60, 80, 70, 75)),
      Word(yamada, 4, Box(40, 55, 10, 15)),
      Word(<<"(", "(">> \o px \o <<"2">>, 9, Box(0, 80, 110, 115)),
      Word(<<"1", "2">>, 9, Box(20, 35, 10, 15)) }

\* tokens laid out around an identifier at IdBox
LayoutTokens ==
    { Word(px \o <<"1">>, 9, IdBox),
      Word(<<"1">>, 9, IdBox),
      Word(<<"U5C71">>, 9, Box(40, 55, 10, 15)),
      Word(<<"U7530">>, 9, Box(10, 14, 10, 15)),
      Word(<<"U592A">>, 9, Box(33, 35, 13, 18)),
      Word(<<"U90CE">>, 9, Box(40, 60, 10, 15)),
      Word(<<"7">>, 9, Box(40, 55, 14, 19)),
      Word(<<"(">>, 9, Box(56, 58, 10, 15)),
      Word(px, 9, Box(57, 59, 10, 15)) }

PagesOf(tokens) == UNION {[1..n -> tokens] : n \in 0..MaxWords}

\* the embedded form: one token holding the name and the identifier
EmbeddedExample ==
    << Word(yamada \o <<"U592A", "U90CE", "(">> \o px
                \o <<"0", "0", "0", "0", "0", "0", "1", ")">>, 9,
            Box(0, 80, 90, 95)) >>

\* the spatial form: the name to the left of the identifier, on its line
SpatialExample ==
    << Word(yamada, 9, Box(0, 50, 10, 30)),
       Word(px \o <<"0", "0", "0", "0", "0", "0", "2">>, 9,
            Box(120, 220, 10, 30)) >>

IdPages == PagesOf(IdTokens) \cup {EmbeddedExample}

LayoutPages == PagesOf(LayoutTokens) \cup {SpatialExample}

Init ==
    /\ pc = "start"
    /\ config = NoConfig
    /\ extractor = NoExtractor
    /\ words = <<>>
    /\ snapshot = <<>>
    /\ pos = 0
    /\ candidates = <<>>
    /\ seen_ids = {}
    /\ students = <<>>
    /\ log = <<>>
    /\ pn_raw = <<>>
    /\ pn_out = NotParsed
    /\ NoExport

Next ==
    \/ DirectConfig
    \/ LoadConfig
    \/ Lifespan
    \/ Construct
    \/ CallExtract(IdPages)
    \/ ScanWord
    \/ ScanDone
    \/ BuildRecord
    \/ BuildDone
    \/ Return

Spec == Init /\ [][Next]_vars

NextLayout ==
    \/ DirectConfig
    \/ LoadConfig
    \/ Lifespan
    \/ Construct
    \/ CallExtract(LayoutPages)
    \/ ScanWord
    \/ ScanDone
    \/ BuildRecord
    \/ BuildDone
    \/ Return

SpecLayout == Init /\ [][NextLayout]_vars

(***************************************************************************)
(* Properties of extract                                                   *)
(***************************************************************************)
Threshold == extractor.config.confidence_threshold

Prefix == extractor.config.student_id_prefix

InExtract == pc \in {"scan", "build", "done"}

\* the identifier the search finds in words[k]
IdOf(k) == IdSearch(Prefix, words[k].content).group

\* the tokens that hold an identifier and meet the threshold
Hits ==
    {k \in 1..Len(words) :
        /\ IdSearch(Prefix, words[k].content).found
        /\ words[k].rec_score >= Threshold}

\* among them, the first in scan order for each identifier value
Firsts == {k \in Hits : \A j \in Hits : j < k => IdOf(j) # IdOf(k)}

\* the i-th of them in scan order
NthFirst(i) == CHOOSE k \in Firsts : Cardinality({j \in Firsts : j < k}) = i - 1

\* C1: the records of one call of extract have pairwise distinct
\* student_id_full values
C1_UniqueIds ==
    \A i, j \in 1..Len(students) :
        i # j => students[i].student_id_full # students[j].student_id_full

\* a call has dropped a duplicate and returns two records
C1_Witness ==
    /\ pc = "done"
    /\ Len(students) >= 2
    /\ Len(candidates) > Len(students)

\* C2: every record carries the confidence of a token that contains the
\* record's identifier and meets the threshold; it is the score of the
\* token the identifier was taken from
C2_ThresholdMet ==
    InExtract =>
        \A i \in 1..Len(students) :
            /\ students[i].confidence >= Threshold
            /\ students[i].confidence = log[i].word.rec_score
            /\ \E k \in 1..Len(words) :
                   /\ words[k].rec_score = students[i].confidence
                   /\ words[k].rec_score >= Threshold
                   /\ Contains(words[k].content, students[i].student_id_full)

\* a call returns a record whose name came from a token below the
\* threshold, while a token holding an identifier was below it too
C2_Witness ==
    /\ pc = "done"
    /\ \E i \in 1..Len(students) :
           /\ log[i].parts # <<>>
           /\ log[i].parts[1].rec_score < Threshold
           /\ students[i].full_name # <<>>
    /\ \E k \in 1..Len(words) :
           /\ IdSearch(Prefix, words[k].content).found
           /\ words[k].rec_score < Threshold

\* the configuration lacks the prefix or the pattern
InvalidConfig(c) == c.student_id_prefix = <<>> \/ c.student_id_pattern = ""

\* C3: with an absent or empty identifier prefix or pattern no token is
\* examined and no record is produced, however the configuration was built
C3_RejectedBeforeExtraction ==
    (pc # "start" /\ InvalidConfig(config)) =>
        /\ ~InExtract
        /\ students = <<>>

\* C4: the output is, in order, one record per distinct identifier, built
\* from the first token in scan order that holds the identifier and meets
\* the threshold
C4_FirstOccurrenceOrder ==
    pc = "done" =>
        /\ Len(students) = Cardinality(Firsts)
        /\ \A i \in 1..Len(students) :
               /\ students[i].student_id_full = IdOf(NthFirst(i))
               /\ students[i].confidence = words[NthFirst(i)].rec_score

\* a call returns two records; the first token that held the first
\* record's identifier was below the threshold
C4_Witness ==
    /\ pc = "done"
    /\ Len(students) >= 2
    /\ \E k \in 1..Len(words) :
           /\ IdSearch(Prefix, words[k].content).found
           /\ words[k].rec_score < Threshold
           /\ k < NthFirst(1)
           /\ IdOf(NthFirst(1)) = IdOf(k)

\* C5: an identifier for which no name is located, or whose located text
\* cleans to nothing, still gives a record, with the three name fields empty
C5_EmptyNameRecord ==
    /\ Len(log) = Len(students)
    /\ \A i \in 1..Len(students) :
           (log[i].raw_name = <<>> \/ RemoveParens(Strip(log[i].raw_name)) = <<>>)
               => /\ students[i].surname = <<>>
                  /\ students[i].name = <<>>
                  /\ students[i].full_name = <<>>
    /\ pc = "done" =>
           /\ Len(students) = Cardinality({candidates[k].match.group :
                                               k \in 1..Len(candidates)})
           /\ \A k \in 1..Len(candidates) :
                  \E i \in 1..Len(students) :
                      students[i].student_id_full = candidates[k].match.group

\* a call returns a record whose search found no name and a record whose
\* embedded text cleaned to nothing
C5_Witness ==
    /\ pc = "done"
    /\ \E i, j \in 1..Len(students) :
           /\ log[i].searched
           /\ log[i].raw_name = <<>>
           /\ students[i].full_name = <<>>
           /\ ~log[j].searched
           /\ log[j].raw_name # <<>>
           /\ students[j].full_name = <<>>

\* s without its leading and trailing whitespace
Trimmed(s) ==
    LET inner == {i \in 1..Len(s) : s[i] \notin Whitespace}
    IN  IF inner = {} THEN <<>> ELSE SubSeq(s, SetMin(inner), SetMax(inner))

\* the content before the identifier, trimmed, without one closing "("
EmbeddedName(word) ==
    LET m == IdSearch(Prefix, word.content)
        t == Trimmed(SubSeq(word.content, 1, m.start))
    IN  IF t # <<>> /\ t[Len(t)] = "("
        THEN Trimmed(SubSeq(t, 1, Len(t) - 1))
        ELSE t

\* C6: a non-empty embedded remainder is the raw name and no spatial search
\* is made; the search is made exactly when the remainder is empty
C6_EmbeddedForm ==
    \A i \in 1..Len(log) :
        LET rem == EmbeddedName(log[i].word)
        IN  /\ rem # <<>> => (log[i].raw_name = rem /\ ~log[i].searched)
            /\ log[i].searched <=> rem = <<>>
            /\ (log[i].word = EmbeddedExample[1] /\ Prefix = px) =>
                   /\ log[i].raw_name = yamada \o <<"U592A", "U90CE">>
                   /\ students[i].student_id_num =
                          <<"0", "0", "0", "0", "0", "0", "1">>

\* the embedded example was extracted
C6_Witness ==
    /\ pc = "done"
    /\ Prefix = px
    /\ Len(log) = 1
    /\ log[1].word = EmbeddedExample[1]
    /\ ~log[1].searched

\* the record extract builds from words[k] when the document is all there is
RecordAlone(ex, ws, k) ==
    LET m == IdSearch(ex.config.student_id_prefix, ws[k].content)
        clean_pre == CleanPre(SubSeq(ws[k].content, 1, m.start))
        raw == IF clean_pre # <<>> THEN clean_pre
               ELSE FindNameAtLeft(ex, ws[k], ws)
    IN  StudentInfo(m.group, ParseName(raw), ws[k])

\* C9: extract leaves the token list and the Extractor as they were, and a
\* call on a shared Extractor returns what the document gives on its own
C9_PureCall ==
    /\ InExtract => (words = snapshot /\ extractor = NewExtractor(config))
    /\ pc = "done" =>
           /\ Len(students) = Cardinality(Firsts)
           /\ \A i \in 1..Len(students) :
                  students[i] = RecordAlone(NewExtractor(config), snapshot,
                                            NthFirst(i))

\* a later call of the shared Extractor returns a record for an identifier
\* that an earlier call had returned too
C9_Witness ==
    /\ pc = "scan"
    /\ seen_ids # {}
    /\ \E k \in Hits : IdOf(k) \in seen_ids

(***************************************************************************)
(* Properties of the spatial search                                        *)
(***************************************************************************)
\* the gap between a boundary x and the rightmost x of token w exceeds
\* five heights of the identifier token idw
Beyond(boundary, w, idw) ==
    boundary - MaxX(w.points) > 5 * Height(idw.points)

\* C7 as stated: no token of the name has its rightmost x more than
\* 5 x id_height below the identifier's leftmost x
C7_WithinFiveHeightsOfId ==
    \A i \in 1..Len(log) :
        \A k \in 1..Len(log[i].parts) :
            ~Beyond(MinX(log[i].word.points), log[i].parts[k], log[i].word)

\* C7, amended: no token of the name has its rightmost x more than
\* 5 x id_height below the running boundary: the identifier's leftmost x
\* for the nearest token, that token's leftmost x for the one before it
C7_WithinFiveHeightsOfBoundary ==
    \A i \in 1..Len(log) :
        LET parts == log[i].parts
            n == Len(parts)
        IN  /\ n >= 1 =>
                   ~Beyond(MinX(log[i].word.points), parts[n], log[i].word)
            /\ \A k \in 1..(n - 1) :
                   ~Beyond(MinX(parts[k + 1].points), parts[k], log[i].word)

\* a search took one token and left out a token of the same line that lies
\* more than five heights to the left of the token taken
C7_Witness ==
    /\ pc = "done"
    /\ \E i \in 1..Len(log) :
           /\ log[i].searched
           /\ Len(log[i].parts) = 1
           /\ \E k \in 1..Len(words) :
                  /\ Qualifies(extractor, log[i].word, words[k])
                  /\ Beyond(MinX(log[i].parts[1].points), words[k], log[i].word)

\* the conditions C10 puts on a token of the name, the prefix apart
C10_TokenOk(p, idw) ==
    /\ p # idw
    /\ ~(extractor.name_exclusion_pattern.given
            /\ \E c \in extractor.name_exclusion_pattern.class :
                   Contains(p.content, <<c>>))
    /\ 5 * Abs((p.points[1][2] + p.points[3][2])
                   - (idw.points[1][2] + idw.points[3][2]))
           < 8 * Abs(idw.points[3][2] - idw.points[1][2])
    /\ MaxX(p.points) < MinX(idw.points)

\* " ".join of the contents of at most two tokens
C10_Joined(parts) ==
    IF Len(parts) = 0 THEN <<>>
    ELSE IF Len(parts) = 1 THEN parts[1].content
    ELSE parts[1].content \o <<" ">> \o parts[2].content

\* C10 without the prefix condition on the tokens taken
C10_Rest ==
    \A i \in 1..Len(log) :
        log[i].searched =>
            LET parts == log[i].parts
                idw == log[i].word
            IN  /\ Len(parts) <= 2
                /\ log[i].raw_name = C10_Joined(parts)
                /\ \A k \in 1..Len(parts) : C10_TokenOk(parts[k], idw)
                /\ \A k \in 1..Len(parts) :
                       \A j \in 1..Len(words) :
                           (/\ C10_TokenOk(words[j], idw)
                            /\ ~Contains(words[j].content, Prefix)
                            /\ \A m \in 1..Len(parts) : parts[m] # words[j])
                               => MaxX(words[j].points) <= MaxX(parts[k].points)
                /\ Len(parts) = 2 =>
                       MaxX(parts[1].points) <= MaxX(parts[2].points)
                /\ words = SpatialExample => log[i].raw_name = yamada

\* C10, the prefix condition: no token of the name contains the prefix
C10_NoPrefixInName ==
    \A i \in 1..Len(log) :
        \A k \in 1..Len(log[i].parts) :
            ~Contains(log[i].parts[k].content, Prefix)

\* C10: the name is made of at most two tokens, each not the identifier
\* token, not matching the exclusion pattern, not containing the prefix,
\* on the identifier's line and strictly to its left, taken nearest first
\* and joined left to right
C10_SpatialName == C10_Rest /\ C10_NoPrefixInName

(***************************************************************************)
(* _parse_name applied to bounded raw names                                *)
(***************************************************************************)
MaxRawLen == 4

NameChars == {"U5C71", "U7530", "a", " ", "U3000", "U00A0", "("}

Yamada_Taro == <<"U5C71", "U7530", " ", "U592A", "U90CE">>

Taro_Yamada == <<"T", "a", "r", "o", " ", "Y", "a", "m", "a", "d", "a">>

RawNames ==
    UNION {[1..n -> NameChars] : n \in 0..MaxRawLen} \cup {Yamada_Taro, Taro_Yamada}

InitName ==
    /\ pn_raw \in RawNames
    /\ pn_out = NotParsed
    /\ config = NoConfig
    /\ extractor = NoExtractor
    /\ pc = "start"
    /\ words = <<>>
    /\ snapshot = <<>>
    /\ pos = 0
    /\ candidates = <<>>
    /\ seen_ids = {}
    /\ students = <<>>
    /\ log = <<>>
    /\ NoExport

CallParseName ==
    /\ pn_out = NotParsed
    /\ pn_out' = ParseName(pn_raw)
    /\ UNCHANGED <<pn_raw, extractVars>>
    /\ UNCHANGED exportVars

NextName == CallParseName

SpecName == InitName /\ [][NextName]_vars

(***************************************************************************)
(* Properties of _parse_name                                               *)
(***************************************************************************)
\* the maximal runs of characters of s outside sep, as pairs of indexes
Runs(s, sep) ==
    {r \in (1..Len(s)) \X (1..Len(s)) :
        /\ r[1] <= r[2]
        /\ \A k \in r[1]..r[2] : s[k] \notin sep
        /\ (r[1] = 1 \/ s[r[1] - 1] \in sep)
        /\ (r[2] = Len(s) \/ s[r[2] + 1] \in sep)}

\* the n-th run from the left, as text
Segment(s, sep, n) ==
    LET r == CHOOSE q \in Runs(s, sep) :
                 Cardinality({o \in Runs(s, sep) : o[1] < q[1]}) = n - 1
    IN  SubSeq(s, r[1], r[2])

\* the segments from the m-th to the last, put together
RECURSIVE RestJoined(_, _, _)
RestJoined(s, sep, m) ==
    IF m > Cardinality(Runs(s, sep)) THEN <<>>
    ELSE Segment(s, sep, m) \o RestJoined(s, sep, m + 1)

\* the raw name trimmed, its parentheses removed
Cleaned(raw) == SelectSeq(Trimmed(raw), LAMBDA c : c # "(" /\ c # ")")

\* what C8 says _parse_name returns when the text is split at runs of sep
ParsedAsClaimed(raw, sep) ==
    LET text == Cleaned(raw)
        letters == Cardinality({k \in 1..Len(text) : text[k] \in AsciiLetters})
        n == Cardinality(Runs(text, sep))
    IN  /\ 2 * letters > Len(text) => pn_out = << <<>>, <<>>, text >>
        /\ (2 * letters <= Len(text) /\ n >= 2) =>
               /\ pn_out[1] = Segment(text, sep, 1)
               /\ pn_out[2] = RestJoined(text, sep, 2)
               /\ pn_out[3] = pn_out[1] \o <<" ">> \o pn_out[2]
        /\ (2 * letters <= Len(text) /\ n = 1) =>
               pn_out = << <<>>, <<>>, text >>

IsParsed == pn_out # NotParsed

C11_CleanedFullName ==
    IsParsed =>
        /\ (\A k \in 1..Len(pn_raw) : pn_raw[k] \in Whitespace \cup {"(", ")"})
               => pn_out = << <<>>, <<>>, <<>> >>
        /\ \A k \in 1..Len(pn_out[3]) : pn_out[3][k] \notin {"(", ")"}
        /\ pn_out[3] # <<>> =>
               /\ pn_out[3][1] \notin Whitespace
               /\ pn_out[3][Len(pn_out[3])] \notin Whitespace

(***************************************************************************)
(* server: /api/export and /api/export/download                            *)
(***************************************************************************)

\* CSVWriter.write_merged, line 9
fieldnames ==
    <<"surname", "name", "full_name", "student_id_full", "student_id_num",
      "confidence">>

\* the student dicts a client sends back; the second has no file_name
Taro ==
    [surname |-> yamada, name |-> <<"U592A", "U90CE">>,
     full_name |-> Yamada_Taro, student_id_full |-> px \o <<"1">>,
     student_id_num |-> <<"1">>, confidence |-> 9, file_name |-> "a.png"]

Hanako ==
    [surname |-> <<>>, name |-> <<>>, full_name |-> <<>>,
     student_id_full |-> <<"2">>, student_id_num |-> <<"2">>,
     confidence |-> 5]

\* ExportRequest.students of the requests
Payloads == {<<>>, <<Taro>>, <<Taro, Hanako>>}

\* s_data.setdefault("file_name", None); StudentInfo(**s_data)
StudentObj(s_data) ==
    [k \in DOMAIN s_data \cup {"file_name"} |->
        IF k \in DOMAIN s_data THEN s_data[k] ELSE "None"]

StudentObjs(students_in) ==
    [i \in 1..Len(students_in) |-> StudentObj(students_in[i])]

\* writer.writerow(s.model_dump()) with extrasaction='ignore': the fields
\* of fieldnames in that order, file_name left out
Row(s) == [k \in 1..Len(fieldnames) |-> s[fieldnames[k]]]

\* writeheader, then one row per student
CsvLines(student_objs) ==
    <<fieldnames>> \o [i \in 1..Len(student_objs) |-> Row(student_objs[i])]

\* encoding="utf-8-sig" on write: the byte order mark, then the text
EncodeSig(lines) == [bom |-> TRUE, lines |-> lines]

\* encoding="utf-8-sig" on read: the text without the byte order mark
DecodeSig(bytes) == [bom |-> FALSE, lines |-> bytes.lines]

\* open(output_path, "w") in write_merged: a new file when the name is
\* free, else the file the name already has, truncated
WriteMerged(r, student_objs) ==
    LET bytes == EncodeSig(CsvLines(student_objs))
        file == IF path = 0 THEN r ELSE path
    IN  /\ path' = file
        /\ disk' = [disk EXCEPT ![file] = bytes]

\* export_csv, lines 126-145: the request arrives, the handler builds
\* student_objs and writes temp_export.csv; it holds the event loop until
\* it returns
ExportWrite(r) ==
    /\ requests[r].pc = "new"
    /\ loop = 0
    /\ \E students_in \in Payloads :
           /\ requests' = [requests EXCEPT ![r].kind = "export",
                                           ![r].students = students_in,
                                           ![r].pc = "written"]
           /\ WriteMerged(r, StudentObjs(students_in))
    /\ loop' = r
    /\ UNCHANGED extractVars
    /\ UNCHANGED <<pn_raw, pn_out>>

\* export_csv, lines 147-148: open and read; FileNotFoundError when the
\* name is gone
ExportRead(r) ==
    /\ requests[r].kind = "export"
    /\ requests[r].pc = "written"
    /\ IF path = 0
       THEN /\ requests' = [requests EXCEPT ![r].pc = "failed"]
            /\ loop' = 0
       ELSE /\ requests' = [requests EXCEPT ![r].content = DecodeSig(disk[path]),
                                            ![r].pc = "read"]
            /\ loop' = loop
    /\ UNCHANGED <<path, disk>>
    /\ UNCHANGED extractVars
    /\ UNCHANGED <<pn_raw, pn_out>>

\* export_csv, lines 150-152: os.remove, then the JSON response
ExportRemove(r) ==
    /\ requests[r].kind = "export"
    /\ requests[r].pc = "read"
    /\ IF path = 0
       THEN /\ requests' = [requests EXCEPT ![r].pc = "failed"]
            /\ path' = path
       ELSE /\ requests' = [requests EXCEPT ![r].body = requests[r].content,
                                            ![r].pc = "responded"]
            /\ path' = 0
    /\ loop' = 0
    /\ UNCHANGED disk
    /\ UNCHANGED extractVars
    /\ UNCHANGED <<pn_raw, pn_out>>

\* export_download, lines 160-182: the handler writes temp_export.csv and
\* returns the StreamingResponse; iterfile has not started
DownloadWrite(r) ==
    /\ requests[r].pc = "new"
    /\ loop = 0
    /\ \E students_in \in Payloads :
           /\ requests' = [requests EXCEPT ![r].kind = "download",
                                           ![r].students = students_in,
                                           ![r].pc = "returned"]
           /\ WriteMerged(r, StudentObjs(students_in))
    /\ UNCHANGED loop
    /\ UNCHANGED extractVars
    /\ UNCHANGED <<pn_raw, pn_out>>

\* iterfile, line 174, on a worker thread while the response is sent:
\* open(temp_csv, "rb")
DownloadOpen(r) ==
    /\ requests[r].kind = "download"
    /\ requests[r].pc = "returned"
    /\ IF path = 0
       THEN requests' = [requests EXCEPT ![r].pc = "failed"]
       ELSE requests' = [requests EXCEPT ![r].handle = path,
                                         ![r].pc = "open"]
    /\ UNCHANGED <<path, disk, loop>>
    /\ UNCHANGED extractVars
    /\ UNCHANGED <<pn_raw, pn_out>>

\* iterfile, line 175: yield from f; the file fits one buffer, so the first
\* line fetched reads all of the open file, whatever the name is now
DownloadRead(r) ==
    /\ requests[r].kind = "download"
    /\ requests[r].pc = "open"
    /\ requests' = [requests EXCEPT ![r].body = disk[requests[r].handle],
                                    ![r].pc = "sent"]
    /\ UNCHANGED <<path, disk, loop>>
    /\ UNCHANGED extractVars
    /\ UNCHANGED <<pn_raw, pn_out>>

\* iterfile, line 176: os.remove(temp_csv) once the file is exhausted
DownloadRemove(r) ==
    /\ requests[r].kind = "download"
    /\ requests[r].pc = "sent"
    /\ IF path = 0
       THEN /\ requests' = [requests EXCEPT ![r].pc = "failed"]
            /\ path' = path
       ELSE /\ requests' = [requests EXCEPT ![r].pc = "responded"]
            /\ path' = 0
    /\ UNCHANGED <<disk, loop>>
    /\ UNCHANGED extractVars
    /\ UNCHANGED <<pn_raw, pn_out>>

\* the server after lifespan, no request yet
InitExport ==
    /\ config = DefaultConfig
    /\ extractor = NewExtractor(DefaultConfig)
    /\ pc = "idle"
    /\ words = <<>>
    /\ snapshot = <<>>
    /\ pos = 0
    /\ candidates = <<>>
    /\ seen_ids = {}
    /\ students = <<>>
    /\ log = <<>>
    /\ pn_raw = <<>>
    /\ pn_out = NotParsed
    /\ NoExport

NextExport ==
    \E r \in Requests :
        \/ ExportWrite(r)
        \/ ExportRead(r)
        \/ ExportRemove(r)
        \/ DownloadWrite(r)
        \/ DownloadOpen(r)
        \/ DownloadRead(r)
        \/ DownloadRemove(r)

SpecExport == InitExport /\ [][NextExport]_vars

\* what the client of request r is owed: the CSV of the students it sent,
\* as text from /api/export and as bytes from /api/export/download
OwnCsv(r) ==
    LET lines == CsvLines(StudentObjs(requests[r].students))
    IN  IF requests[r].kind = "export"
        THEN DecodeSig(EncodeSig(lines))
        ELSE EncodeSig(lines)

\* C12: whatever the interleaving of /api/export and /api/export/download
\* requests, no request fails because temp_export.csv is missing, and each
\* response body is the CSV of the students sent in that same request
C12_OwnCsv ==
    \A r \in Requests :
        /\ requests[r].pc # "failed"
        /\ requests[r].pc \in {"sent", "responded"} =>
               requests[r].body = OwnCsv(r)

=============================================================================
